---- MODULE Spec2Model ----
(***************************************************************************)
(* Model of the realtime audio session manager, src/hooks/useLiveSession.ts *)
(* (the useLiveSession hook): connect / cleanup / disconnect / toggleMute   *)
(* and the callbacks the hook registers (onopen, onmessage, onclose,        *)
(* onerror, onaudioprocess, the 'ended' listener).                          *)
(*                                                                          *)
(* Every call of connect that passes the credential check gets a number     *)
(* n in 1..MaxConnects.  The objects that call creates carry the same       *)
(* number: its two AudioContexts, its microphone MediaStream, its remote    *)
(* session and the ScriptProcessor its onopen creates.  0 stands for null.  *)
(*                                                                          *)
(* Each action is one JavaScript task: a handler runs from its entry (or    *)
(* from the await it was suspended on) to its next await.                   *)
(***************************************************************************)
EXTENDS Integers, Sequences, FiniteSets

\* ---------------------------------------------------------------- bounds
MaxConnects == 2            \* calls of connect that pass the credential check
MaxPlaybackConnects == 1    \* the same, in the specification with playback
MaxChunks == 3              \* audio chunks handed to decodeAudioData
MaxPlaybackChunks == 1      \* the same, in the specification with the mode gate
MaxTime == 2                \* ticks of the playback clock per context
MaxPlaybackTime == 1        \* the same, in the specification with the mode gate
MaxLen == 2                 \* characters of transcription text that are held
MaxBlocks == 1              \* capture blocks handed to the transport
MaxDelayedConnects == 1     \* further calls of connect, for App's timers
MaxWords == 4               \* words and repetitions an analysis reports

Durations == {1, 2}
Fragments == {<<"a">>, <<" ">>}
Volumes == {0, 1}

Calls == 1..(MaxConnects + MaxDelayedConnects)
NoText == <<>>
NoChunk == -1
NoError == "null"
MissingKeyError == "API Key is missing."
TransportError == "Connection error occurred. Please try again."
MicErrors == {"Permission denied", "Failed to connect"}

\* connect's optional argument: absent, the empty string, or the instruction
\* App builds for the test proctor
NoOverride == "undefined"
EmptyInstruction == ""
ProctorInstruction == "You are now a Test Proctor."
Overrides == {NoOverride, EmptyInstruction, ProctorInstruction}
DEFAULT_SYSTEM_INSTRUCTION == "You are AURA."
\* no session has been configured yet
NoInstruction == "none"

ConnectionState == {"disconnected", "connecting", "connected", "error"}
AppMode == {"CONVERSATION", "TEST_SETUP", "TEST_ACTIVE"}
AppView == {"LANDING", "PATIENT", "DOCTOR"}
NoTestType == "null"

\* what generateContent gives analyzeFluencySession: the request fails, the
\* response has no text, the text is not the JSON asked for, or it is a
\* JSON object with the counts (the other fields are copied through)
GenerateContent ==
  [outcome : {"rejected", "empty", "malformed"}, uniqueWords : {0},
   repetitions : {0}]
    \cup [outcome : {"json"}, uniqueWords : 0..MaxWords,
          repetitions : 0..MaxWords]

\* FluencyScore | null, as a sequence of at most one FluencyScore
NoFluencyScore == <<>>
TestType == {"SEMANTIC", "PHONEMIC", NoTestType}

\* the messages of the remote service, as onmessage reads them:
\* <<>> is an absent transcription, audio = 0 an absent inlineData
\* TLC enumerates this set for every open session in every state; the
\* specifications below draw their messages from subsets of it
LiveServerMessage ==
  [outputTranscription : {NoText} \cup Fragments,
   inputTranscription : {NoText} \cup Fragments,
   turnComplete : BOOLEAN,
   audio : {0} \cup Durations,
   interrupted : BOOLEAN]

VARIABLES
  apiKey,                        \* process.env.API_KEY is set
  connectionState, error, isMuted, volumeLevel,
  appMode, appModeRef,
  testType, currentView,         \* state of App
  fluencyResult,                 \* state of DoctorView
  timeLeft,                      \* state of PatientView (while it is not
                                 \* mounted: the value it mounts with)
  inputAudioContextRef, outputAudioContextRef, outputNodeRef,
  streamRef, scriptProcessorRef,
  nextStartTimeRef, activeSourcesRef,
  lastEnd,                       \* where the last chunk started since the
                                 \* last cursor reset ends (NoChunk: none)
  sessionPromiseRef,
  currentInputTranscriptionRef, currentOutputTranscriptionRef,
  transcript,                    \* the transcript log of the application
  calls,                         \* per connect call: stage and closure
  closeRequested,                \* sessions with a pending .then(close)
  pendingResume,                 \* onopen suspended on resume()
  pendingDecodes,                \* onmessage suspended on decodeAudioData
  openInputContexts, openOutputContexts,
  currentTime,                   \* outputAudioContextRef.current.currentTime
  liveStreams,                   \* streams whose tracks are not stopped
  processors,                    \* ScriptProcessors wired by onopen
  nChunks, sentBlocks

vars == <<apiKey, connectionState, error, isMuted, volumeLevel,
          appMode, appModeRef, testType, currentView, fluencyResult,
          timeLeft,
          inputAudioContextRef, outputAudioContextRef, outputNodeRef,
          streamRef, scriptProcessorRef,
          nextStartTimeRef, activeSourcesRef, lastEnd, sessionPromiseRef,
          currentInputTranscriptionRef, currentOutputTranscriptionRef,
          transcript, calls, closeRequested, pendingResume, pendingDecodes,
          openInputContexts, openOutputContexts, currentTime,
          liveStreams, processors, nChunks, sentBlocks>>

uiVars == <<connectionState, error, isMuted, volumeLevel>>
viewVars == <<testType, currentView, fluencyResult, timeLeft>>
modeVars == <<appMode, appModeRef, viewVars>>
deviceRefs == <<inputAudioContextRef, outputAudioContextRef, outputNodeRef,
                streamRef, scriptProcessorRef>>
playbackVars == <<nextStartTimeRef, activeSourcesRef, lastEnd>>
transcriptVars == <<currentInputTranscriptionRef, currentOutputTranscriptionRef,
                    transcript>>
deviceVars == <<openInputContexts, openOutputContexts, liveStreams, processors>>

\* the smaller of the two
Min(a, b) == IF a <= b THEN a ELSE b

Max(a, b) == IF a >= b THEN a ELSE b

\* PatientView: 15 s for the semantic test, 60 s otherwise
duration(type) == IF type = "SEMANTIC" THEN 15 ELSE 60

\* stage of a connect call and of the session it opens
\* "delayed": a setTimeout of App holds the call; "noKey": it returned at the
\* credential check
Stages == {"unused", "delayed", "noKey", "awaitMic", "micFailed",
           "negotiating", "open", "closing", "closed"}

Init ==
  /\ apiKey \in BOOLEAN
  /\ connectionState = "disconnected"
  /\ error = NoError
  /\ isMuted = FALSE
  /\ volumeLevel = 0
  /\ appMode = "CONVERSATION"
  /\ appModeRef = "CONVERSATION"
  /\ testType = NoTestType
  /\ currentView = "LANDING"
  /\ fluencyResult = NoFluencyScore
  /\ timeLeft = duration(NoTestType)
  /\ inputAudioContextRef = 0
  /\ outputAudioContextRef = 0
  /\ outputNodeRef = 0
  /\ streamRef = 0
  /\ scriptProcessorRef = 0
  /\ nextStartTimeRef = 0
  /\ activeSourcesRef = {}
  /\ lastEnd = NoChunk
  /\ sessionPromiseRef = 0
  /\ currentInputTranscriptionRef = NoText
  /\ currentOutputTranscriptionRef = NoText
  /\ transcript = <<>>
  /\ calls = [n \in Calls |-> [stage |-> "unused", isMuted |-> FALSE,
                              override |-> NoOverride,
                              systemInstruction |-> NoInstruction]]
  /\ closeRequested = {}
  /\ pendingResume = {}
  /\ pendingDecodes = {}
  /\ openInputContexts = {}
  /\ openOutputContexts = {}
  /\ currentTime = 0
  /\ liveStreams = {}
  /\ processors = {}
  /\ nChunks = 0
  /\ sentBlocks = 0

\* ------------------------------------------------------------- cleanup
\* the values cleanup() leaves in each piece of state it touches

\* session.close() on the session held in sessionPromiseRef: at once when
\* the promise is already resolved (session open), at resolution otherwise
cleanupCalls ==
  IF sessionPromiseRef # 0 /\ calls[sessionPromiseRef].stage = "open"
  THEN [calls EXCEPT ![sessionPromiseRef].stage = "closing"]
  ELSE calls

cleanupCloseRequested ==
  IF sessionPromiseRef # 0 /\ calls[sessionPromiseRef].stage = "negotiating"
  THEN closeRequested \cup {sessionPromiseRef}
  ELSE closeRequested

cleanupLiveStreams == liveStreams \ {streamRef}

cleanupProcessors == {p \in processors : p.session # scriptProcessorRef}

cleanupInputContexts == openInputContexts \ {inputAudioContextRef}

cleanupOutputContexts == openOutputContexts \ {outputAudioContextRef}

\* what cleanup does to the refs, the devices and the hook's state
cleanupRefs ==
  /\ activeSourcesRef' = {}
  /\ liveStreams' = cleanupLiveStreams
  /\ streamRef' = 0
  /\ processors' = cleanupProcessors
  /\ scriptProcessorRef' = 0
  /\ openInputContexts' = cleanupInputContexts
  /\ inputAudioContextRef' = 0
  /\ openOutputContexts' = cleanupOutputContexts
  /\ currentTime' = 0
  /\ outputAudioContextRef' = 0
  /\ closeRequested' = cleanupCloseRequested
  /\ sessionPromiseRef' = 0
  /\ connectionState' = "disconnected"
  /\ volumeLevel' = 0
  /\ UNCHANGED <<apiKey, error, isMuted, outputNodeRef, nextStartTimeRef,
                 lastEnd, transcriptVars, pendingResume, pendingDecodes,
                 nChunks, sentBlocks>>

cleanup ==
  /\ cleanupRefs
  /\ calls' = cleanupCalls
  /\ UNCHANGED modeVars

disconnect == cleanup

\* ------------------------------------------------------------- connect
\* connect(), from its entry to the await on getUserMedia
connectMissingKey ==
  /\ ~apiKey
  /\ error' = MissingKeyError
  /\ UNCHANGED <<apiKey, connectionState, isMuted, volumeLevel, modeVars,
                 deviceRefs, playbackVars, sessionPromiseRef, transcriptVars,
                 calls, closeRequested, pendingResume, pendingDecodes,
                 deviceVars, currentTime, nChunks, sentBlocks>>

connectToAwait(n, systemInstructionOverride) ==
  LET reconnect == sessionPromiseRef # 0 IN
  /\ apiKey
  /\ activeSourcesRef' = IF reconnect THEN {} ELSE activeSourcesRef
  /\ liveStreams' = IF reconnect THEN cleanupLiveStreams ELSE liveStreams
  /\ streamRef' = IF reconnect THEN 0 ELSE streamRef
  /\ processors' = IF reconnect THEN cleanupProcessors ELSE processors
  /\ scriptProcessorRef' = IF reconnect THEN 0 ELSE scriptProcessorRef
  /\ closeRequested' = IF reconnect THEN cleanupCloseRequested ELSE closeRequested
  /\ sessionPromiseRef' = 0
  /\ volumeLevel' = IF reconnect THEN 0 ELSE volumeLevel
  /\ connectionState' = "connecting"
  /\ error' = NoError
  /\ openInputContexts' =
       (IF reconnect THEN cleanupInputContexts ELSE openInputContexts) \cup {n}
  /\ openOutputContexts' =
       (IF reconnect THEN cleanupOutputContexts ELSE openOutputContexts) \cup {n}
  /\ currentTime' = 0
  /\ inputAudioContextRef' = n
  /\ outputAudioContextRef' = n
  /\ nextStartTimeRef' = 0
  /\ lastEnd' = NoChunk
  /\ outputNodeRef' = n
  /\ calls' = [(IF reconnect THEN cleanupCalls ELSE calls)
                 EXCEPT ![n] = [stage |-> "awaitMic", isMuted |-> isMuted,
                                override |-> systemInstructionOverride,
                                systemInstruction |-> NoInstruction]]
  /\ UNCHANGED <<apiKey, isMuted, modeVars, transcriptVars, pendingResume,
                 pendingDecodes, nChunks, sentBlocks>>

\* connect called by a handler: n is the first call not made yet
connectCall(n, systemInstructionOverride) ==
  /\ n <= MaxConnects
  /\ calls[n].stage = "unused"
  /\ \A m \in Calls : m < n => calls[m].stage # "unused"
  /\ connectToAwait(n, systemInstructionOverride)

\* connect() called without an argument
connectStart(n) == connectCall(n, NoOverride)

connect == connectMissingKey \/ \E n \in Calls : connectStart(n)

\* a configuration that ignores connect's argument
systemInstructionDefaultOnly(systemInstructionOverride) ==
  DEFAULT_SYSTEM_INSTRUCTION

\* systemInstructionOverride || DEFAULT_SYSTEM_INSTRUCTION: undefined and the
\* empty string are falsy
systemInstruction(systemInstructionOverride) ==
  IF systemInstructionOverride \in {NoOverride, EmptyInstruction}
  THEN DEFAULT_SYSTEM_INSTRUCTION
  ELSE systemInstructionOverride

\* getUserMedia resolves: connect resumes, keeps the stream and opens the
\* remote session (ai.live.connect), storing its promise
getUserMediaResolved(n) ==
  /\ calls[n].stage = "awaitMic"
  /\ streamRef' = n
  /\ liveStreams' = liveStreams \cup {n}
  /\ calls' = [calls EXCEPT
                 ![n].stage = "negotiating",
                 ![n].systemInstruction = systemInstruction(calls[n].override)]
  /\ sessionPromiseRef' = n
  /\ UNCHANGED <<apiKey, uiVars, modeVars, inputAudioContextRef,
                 outputAudioContextRef, outputNodeRef, scriptProcessorRef,
                 playbackVars, transcriptVars, closeRequested, pendingResume,
                 pendingDecodes, openInputContexts, openOutputContexts,
                 currentTime, processors, nChunks, sentBlocks>>

\* a catch block that reports the error and leaves connectionState alone
getUserMediaRejectedKeepsState(n) ==
  /\ calls[n].stage = "awaitMic"
  /\ \E msg \in MicErrors : error' = msg
  /\ calls' = [calls EXCEPT ![n].stage = "micFailed"]
  /\ UNCHANGED <<apiKey, connectionState, isMuted, volumeLevel, modeVars,
                 deviceRefs, playbackVars, sessionPromiseRef, transcriptVars,
                 closeRequested, pendingResume, pendingDecodes, deviceVars,
                 currentTime, nChunks, sentBlocks>>

\* getUserMedia rejects: the catch block of connect
getUserMediaRejected(n) ==
  /\ calls[n].stage = "awaitMic"
  /\ \E msg \in MicErrors : error' = msg
  /\ connectionState' = "error"
  /\ calls' = [calls EXCEPT ![n].stage = "micFailed"]
  /\ UNCHANGED <<apiKey, isMuted, volumeLevel, modeVars, deviceRefs,
                 playbackVars, sessionPromiseRef, transcriptVars,
                 closeRequested, pendingResume, pendingDecodes, deviceVars,
                 currentTime, nChunks, sentBlocks>>

toggleMute ==
  /\ isMuted' = ~isMuted
  /\ UNCHANGED <<apiKey, connectionState, error, volumeLevel, modeVars,
                 deviceRefs, playbackVars, sessionPromiseRef, transcriptVars,
                 calls, closeRequested, pendingResume, pendingDecodes,
                 deviceVars, currentTime, nChunks, sentBlocks>>

\* -------------------------------------------------------------- onopen
\* the tail of onopen: wire the capture pipeline, unless torn down
captureProcessors(n) ==
  IF inputAudioContextRef = 0 \/ streamRef = 0
  THEN processors
  ELSE processors \cup {[session |-> n, context |-> inputAudioContextRef,
                         stream |-> streamRef]}

captureProcessorRef(n) ==
  IF inputAudioContextRef = 0 \/ streamRef = 0 THEN scriptProcessorRef ELSE n

\* the remote session opens: onopen runs up to its first await, then the
\* promise of ai.live.connect resolves and a close deferred by cleanup runs.
\* suspended: the playback context is in state 'suspended'
onopen(n, suspended) ==
  LET awaits == outputAudioContextRef # 0 /\ suspended IN
  /\ calls[n].stage = "negotiating"
  /\ connectionState' = "connected"
  /\ pendingResume' = IF awaits THEN pendingResume \cup {n} ELSE pendingResume
  /\ processors' = IF awaits THEN processors ELSE captureProcessors(n)
  /\ scriptProcessorRef' =
       IF awaits THEN scriptProcessorRef ELSE captureProcessorRef(n)
  /\ calls' = [calls EXCEPT ![n].stage =
                 IF n \in closeRequested THEN "closing" ELSE "open"]
  /\ closeRequested' = closeRequested \ {n}
  /\ UNCHANGED <<apiKey, error, isMuted, volumeLevel, modeVars,
                 inputAudioContextRef, outputAudioContextRef, outputNodeRef,
                 streamRef, playbackVars, sessionPromiseRef, transcriptVars,
                 pendingDecodes, openInputContexts, openOutputContexts,
                 currentTime, liveStreams, nChunks, sentBlocks>>

\* resume() settles: onopen continues after its await
onopenResumed(n) ==
  /\ n \in pendingResume
  /\ pendingResume' = pendingResume \ {n}
  /\ processors' = captureProcessors(n)
  /\ scriptProcessorRef' = captureProcessorRef(n)
  /\ UNCHANGED <<apiKey, uiVars, modeVars, inputAudioContextRef,
                 outputAudioContextRef, outputNodeRef, streamRef,
                 playbackVars, sessionPromiseRef, transcriptVars, calls,
                 closeRequested, pendingDecodes, openInputContexts,
                 openOutputContexts, currentTime, liveStreams, nChunks,
                 sentBlocks>>

\* ------------------------------------------------------ onaudioprocess
\* isMuted in the handler is the value connect's closure captured
onaudioprocessMuted(p) == calls[p.session].isMuted

\* one capture block of processor p with RMS volume v; a stopped stream
\* delivers silence; the block reaches the transport if the session is open
onaudioprocess(p, v) ==
  /\ p \in processors
  /\ p.context \in openInputContexts
  /\ sentBlocks < MaxBlocks
  /\ IF onaudioprocessMuted(p)
     THEN UNCHANGED <<volumeLevel, sentBlocks>>
     ELSE /\ volumeLevel' = IF p.stream \in liveStreams THEN v ELSE 0
          /\ sentBlocks' = IF calls[p.session].stage = "open"
                           THEN sentBlocks + 1 ELSE sentBlocks
  /\ UNCHANGED <<apiKey, connectionState, error, isMuted, modeVars,
                 deviceRefs, playbackVars, sessionPromiseRef, transcriptVars,
                 calls, closeRequested, pendingResume, pendingDecodes,
                 openInputContexts, openOutputContexts, currentTime,
                 liveStreams, processors, nChunks>>

\* ----------------------------------------------------------- onmessage
\* a gate that tests for the wrong mode
suppressOutputInSetup(mode) == mode = "TEST_SETUP"

\* Mode Gate: "If in Test Mode, silence the AI"
suppressOutput(mode) == mode = "TEST_ACTIVE"

\* the pending decodes once an interruption has been processed: `late`
\* records that the chunk arrived before that interruption
interruptedDecodes(ds) == {[d EXCEPT !.late = TRUE] : d \in ds}

\* a trim that removes nothing
TrimNothing(text) == text

\* String.prototype.trim over the characters "a" and " "
Trim(text) ==
  LET solid == {i \in 1..Len(text) : text[i] # " "} IN
  IF solid = {} THEN NoText
  ELSE SubSeq(text, CHOOSE i \in solid : \A j \in solid : i <= j,
                    CHOOSE i \in solid : \A j \in solid : j <= i)

\* the ChatMessage of a role (its timestamp, new Date(), is left out)
ChatMessage(role, text) == [role |-> role, text |-> text]

\* the calls of onTranscriptionUpdate at turnComplete, model before user
completedTurnsModelFirst(input, output) ==
  (IF Trim(output) # NoText THEN <<ChatMessage("model", output)>> ELSE <<>>)
  \o (IF Trim(input) # NoText THEN <<ChatMessage("user", input)>> ELSE <<>>)

\* the calls of onTranscriptionUpdate at turnComplete, in order
completedTurns(input, output) ==
  (IF Trim(input) # NoText THEN <<ChatMessage("user", input)>> ELSE <<>>)
  \o (IF Trim(output) # NoText THEN <<ChatMessage("model", output)>> ELSE <<>>)

\* an update that puts the newest messages first
handleTranscriptionUpdateNewestFirst(log, messages) == messages \o log

\* handleTranscriptionUpdate of the application, once per message
handleTranscriptionUpdate(log, messages) == log \o messages

\* an accumulator that survives turnComplete
afterTurnKept(text, m) == text

\* a handler whose interruption clears the accumulator as turnComplete does
afterTurnOrInterruption(text, m) ==
  IF m.turnComplete \/ m.interrupted THEN NoText ELSE text

\* an accumulator after the turnComplete part of the handler
afterTurn(text, m) == IF m.turnComplete THEN NoText ELSE text

\* the characters of the texts in the transcript log
RECURSIVE Chars(_)
Chars(log) == IF log = <<>> THEN 0 ELSE Len(Head(log).text) + Chars(Tail(log))

\* a message of open session n: transcriptions, turnComplete, the mode
\* gate, then either the audio part up to the await on decodeAudioData or
\* (no audio to decode) the interruption part
onmessage(n, m) ==
  LET input == currentInputTranscriptionRef \o m.inputTranscription
      output == currentOutputTranscriptionRef \o m.outputTranscription
      gated == suppressOutput(appModeRef)
      decodes == /\ ~gated
                 /\ m.audio # 0
                 /\ outputAudioContextRef # 0
                 /\ outputNodeRef # 0
      interrupts == ~gated /\ ~decodes /\ m.interrupted
  IN
  /\ calls[n].stage = "open"
  /\ Len(input) + Len(output) + Chars(transcript) <= MaxLen
  /\ decodes => nChunks < MaxChunks
  /\ transcript' =
       IF m.turnComplete
       THEN handleTranscriptionUpdate(transcript, completedTurns(input, output))
       ELSE transcript
  /\ currentInputTranscriptionRef' = afterTurn(input, m)
  /\ currentOutputTranscriptionRef' =
       IF interrupts THEN NoText ELSE afterTurn(output, m)
  /\ nextStartTimeRef' =
       IF decodes
       THEN Max(nextStartTimeRef, currentTime)
       ELSE IF interrupts THEN 0 ELSE nextStartTimeRef
  /\ activeSourcesRef' = IF interrupts THEN {} ELSE activeSourcesRef
  /\ lastEnd' = IF interrupts THEN NoChunk ELSE lastEnd
  /\ pendingDecodes' =
       IF decodes
       THEN pendingDecodes \cup
              {[id |-> nChunks + 1, context |-> outputAudioContextRef,
                duration |-> m.audio, interrupted |-> m.interrupted,
                offered |-> currentTime, late |-> FALSE]}
       ELSE IF interrupts THEN interruptedDecodes(pendingDecodes)
            ELSE pendingDecodes
  /\ nChunks' = IF decodes THEN nChunks + 1 ELSE nChunks
  /\ UNCHANGED <<apiKey, uiVars, modeVars, deviceRefs, sessionPromiseRef,
                 calls, closeRequested, pendingResume, deviceVars,
                 currentTime, sentBlocks>>

\* decodeAudioData(bytes, ctx, 24000, 1) of utils/audioUtils: an asynchronous
\* operation that settles after other events may have run, with a buffer
\* (TRUE) or with a decode failure (FALSE)
decodeAudioData == BOOLEAN

\* source.connect(outputNodeRef.current) throws when the node belongs to
\* another context than the one the handler captured before the await
connectThrows(d) == outputNodeRef # d.context

\* a source started at the device clock, whatever the cursor says
scheduledSourceAtClock(d) ==
  [id |-> d.id, context |-> d.context, start |-> currentTime,
   duration |-> d.duration, end |-> currentTime + d.duration,
   late |-> d.late]

\* the source that the handler starts for decoded chunk d
scheduledSource(d) ==
  [id |-> d.id, context |-> d.context, start |-> nextStartTimeRef,
   duration |-> d.duration,
   end |-> IF d.context = outputAudioContextRef
           THEN Max(nextStartTimeRef, currentTime) + d.duration
           ELSE nextStartTimeRef + d.duration,
   late |-> d.late]

\* a try block that goes on to start the source whatever happened
decodeSchedulesAlways(d, ok) == TRUE

\* the try block runs to its end: the decode gave a buffer and connect
\* did not throw; otherwise the catch block logs and the chunk is dropped
decodeSchedules(d, ok) == ok /\ ~connectThrows(d)

\* decodeAudioData settles for chunk d: onmessage continues after its
\* await; ok = FALSE is a decode failure (caught and logged)
decodeSettled(d, ok) ==
  LET schedules == decodeSchedules(d, ok) IN
  /\ d \in pendingDecodes
  /\ IF d.interrupted
     THEN /\ activeSourcesRef' = {}
          /\ nextStartTimeRef' = 0
          /\ lastEnd' = NoChunk
          /\ currentOutputTranscriptionRef' = NoText
          /\ pendingDecodes' = interruptedDecodes(pendingDecodes \ {d})
     ELSE /\ activeSourcesRef' =
               IF schedules
               THEN activeSourcesRef \cup {scheduledSource(d)}
               ELSE activeSourcesRef
          /\ nextStartTimeRef' =
               IF schedules THEN nextStartTimeRef + d.duration
               ELSE nextStartTimeRef
          /\ lastEnd' =
               IF schedules THEN nextStartTimeRef + d.duration ELSE lastEnd
          /\ pendingDecodes' = pendingDecodes \ {d}
          /\ UNCHANGED currentOutputTranscriptionRef
  /\ UNCHANGED <<apiKey, uiVars, modeVars, deviceRefs, sessionPromiseRef,
                 currentInputTranscriptionRef, transcript, calls,
                 closeRequested, pendingResume, deviceVars, currentTime,
                 nChunks, sentBlocks>>

\* a listener that also rewinds the cursor when the last source has ended
endedResetsCursor(s) ==
  /\ s \in activeSourcesRef
  /\ s.context \in openOutputContexts
  /\ s.context = outputAudioContextRef => currentTime >= s.end
  /\ activeSourcesRef' = activeSourcesRef \ {s}
  /\ nextStartTimeRef' =
       IF activeSourcesRef = {s} THEN 0 ELSE nextStartTimeRef
  /\ UNCHANGED <<apiKey, uiVars, modeVars, deviceRefs, lastEnd,
                 sessionPromiseRef, transcriptVars, calls, closeRequested,
                 pendingResume, pendingDecodes, deviceVars, currentTime,
                 nChunks, sentBlocks>>

\* the 'ended' listener of a source that played to its end (the clock of
\* a context the hook no longer refers to is not tracked: a source on it
\* may end at any time while that context is open)
ended(s) ==
  /\ s \in activeSourcesRef
  /\ s.context \in openOutputContexts
  /\ s.context = outputAudioContextRef => currentTime >= s.end
  /\ activeSourcesRef' = activeSourcesRef \ {s}
  /\ UNCHANGED <<apiKey, uiVars, modeVars, deviceRefs, nextStartTimeRef,
                 lastEnd, sessionPromiseRef, transcriptVars, calls, closeRequested,
                 pendingResume, pendingDecodes, deviceVars, currentTime,
                 nChunks, sentBlocks>>

\* the clock of the playback context advances
tick ==
  /\ outputAudioContextRef # 0
  /\ currentTime < MaxTime
  /\ currentTime' = currentTime + 1
  /\ UNCHANGED <<apiKey, uiVars, modeVars, deviceRefs, playbackVars,
                 sessionPromiseRef, transcriptVars, calls, closeRequested,
                 pendingResume, pendingDecodes, deviceVars, nChunks,
                 sentBlocks>>

\* --------------------------------------------------- onclose / onerror
\* the socket of session n closed: after session.close(), after an error,
\* or closed by the remote service
onclose(n) ==
  /\ calls[n].stage \in {"open", "closing"}
  /\ calls' = [calls EXCEPT ![n].stage = "closed"]
  /\ connectionState' = "disconnected"
  /\ UNCHANGED <<apiKey, error, isMuted, volumeLevel, modeVars, deviceRefs,
                 playbackVars, sessionPromiseRef, transcriptVars,
                 closeRequested, pendingResume, pendingDecodes, deviceVars,
                 currentTime, nChunks, sentBlocks>>

\* transport error of session n; the socket then closes
onerror(n) ==
  /\ calls[n].stage \in {"negotiating", "open"}
  /\ calls' = [calls EXCEPT ![n].stage = "closing"]
  /\ closeRequested' = closeRequested \ {n}
  /\ connectionState' = "error"
  /\ error' = TransportError
  /\ UNCHANGED <<apiKey, isMuted, volumeLevel, modeVars, deviceRefs,
                 playbackVars, sessionPromiseRef, transcriptVars,
                 pendingResume, pendingDecodes, deviceVars, currentTime,
                 nChunks, sentBlocks>>

\* ---------------------------------------------------------- appMode
\* a mode change that also stops playback, as an interruption would
setAppModeStopsPlayback(mode) ==
  /\ mode # appMode
  /\ appMode' = mode
  /\ appModeRef' = mode
  /\ activeSourcesRef' = {}
  /\ nextStartTimeRef' = 0
  /\ UNCHANGED <<apiKey, uiVars, viewVars, deviceRefs, lastEnd, sessionPromiseRef,
                 transcriptVars, calls, closeRequested, pendingResume,
                 pendingDecodes, deviceVars, currentTime, nChunks,
                 sentBlocks>>

\* the application re-renders with another appMode prop; the render's
\* effect copies the prop into appModeRef
setAppMode(mode) ==
  /\ mode # appMode
  /\ appMode' = mode
  /\ appModeRef' = mode
  /\ UNCHANGED <<apiKey, uiVars, viewVars, deviceRefs, playbackVars,
                 sessionPromiseRef, transcriptVars, calls, closeRequested,
                 pendingResume, pendingDecodes, deviceVars, currentTime,
                 nChunks, sentBlocks>>

\* ---------------------------------------------------------------- Next
\* the session lifecycle: the caller's operations and the session events
\* ------------------------------------------------------------------ App
\* the header's buttons; PatientView mounts with timeLeft = duration and
\* its effect starts the countdown anew if the mode is test-active
setCurrentView(view) ==
  /\ view # currentView
  /\ currentView' = view
  /\ timeLeft' = duration(testType)
  /\ fluencyResult' = NoFluencyScore
  /\ UNCHANGED <<apiKey, uiVars, appMode, appModeRef, testType, deviceRefs,
                 playbackVars, sessionPromiseRef, transcriptVars, calls,
                 closeRequested, pendingResume, pendingDecodes, deviceVars,
                 currentTime, nChunks, sentBlocks>>

\* the pattern of App's three handlers: set the test type and the mode,
\* disconnect(), and setTimeout(() => connect(...), 300); the delayed call
\* takes the first slot not used yet.  The mode is not test-active, so the
\* timer effect of PatientView puts timeLeft back to duration.
switchSession(mode, type, systemInstructionOverride) ==
  \E n \in Calls :
    /\ calls[n].stage = "unused"
    /\ \A m \in Calls : m < n => calls[m].stage # "unused"
    /\ testType' = type
    /\ appMode' = mode
    /\ appModeRef' = mode
    /\ timeLeft' = duration(type)
    /\ cleanupRefs
    /\ calls' = [cleanupCalls EXCEPT
                   ![n].stage = "delayed",
                   ![n].override = systemInstructionOverride]
    /\ UNCHANGED <<currentView, fluencyResult>>

\* a handler that the dashboard offers in every mode
handleSetupTestInAnyMode(type) ==
  /\ currentView = "DOCTOR"
  /\ connectionState = "connected"
  /\ switchSession("TEST_SETUP", type, ProctorInstruction)

\* the doctor picks a test: the dashboard offers the buttons in conversation
\* mode only and disables them unless connectionState is 'connected'
handleSetupTest(type) ==
  /\ currentView = "DOCTOR"
  /\ appMode = "CONVERSATION"
  /\ connectionState = "connected"
  /\ switchSession("TEST_SETUP", type, ProctorInstruction)

\* the patient starts the test; the timer effect of PatientView sets
\* timeLeft and starts the interval
onStartTest ==
  /\ currentView = "PATIENT"
  /\ appMode = "TEST_SETUP"
  /\ appMode' = "TEST_ACTIVE"
  /\ appModeRef' = "TEST_ACTIVE"
  /\ timeLeft' = duration(testType)
  /\ UNCHANGED <<apiKey, uiVars, testType, currentView, fluencyResult,
                 deviceRefs,
                 playbackVars, sessionPromiseRef, transcriptVars, calls,
                 closeRequested, pendingResume, pendingDecodes, deviceVars,
                 currentTime, nChunks, sentBlocks>>

\* the patient stops the test early, or the countdown calls it
handleTestComplete ==
  switchSession("CONVERSATION", NoTestType, NoOverride)

\* the button "Stop Test Early" of the test-active screen
onStopTestEarly ==
  /\ currentView = "PATIENT"
  /\ appMode = "TEST_ACTIVE"
  /\ handleTestComplete

\* the doctor cancels the test
handleCancelTest ==
  /\ currentView = "DOCTOR"
  /\ appMode # "CONVERSATION"
  /\ switchSession("CONVERSATION", NoTestType, NoOverride)

\* the interval of the mounted PatientView fires while the mode is
\* test-active: at prev <= 1 it calls onTestComplete
countdown ==
  /\ currentView = "PATIENT"
  /\ appMode = "TEST_ACTIVE"
  /\ IF timeLeft <= 1
     THEN handleTestComplete
     ELSE /\ timeLeft' = timeLeft - 1
          /\ UNCHANGED <<apiKey, uiVars, appMode, appModeRef, testType,
                         currentView, fluencyResult, deviceRefs, playbackVars,
                         sessionPromiseRef, transcriptVars, calls,
                         closeRequested, pendingResume, pendingDecodes,
                         deviceVars, currentTime, nChunks, sentBlocks>>

\* ------------------------------------------------------- verbalFluency
ANIMAL_FLUENCY_THRESHOLD == 3

\* a cutoff that includes the threshold itself
isConcernAtThreshold(score) == score <= ANIMAL_FLUENCY_THRESHOLD

\* const isConcern = score < ANIMAL_FLUENCY_THRESHOLD
isConcern(score) == score < ANIMAL_FLUENCY_THRESHOLD

\* analyzeFluencySession, from the settling of generateContent on: null for
\* a failed request (catch), an empty text, or a text JSON.parse or the
\* field access throws on (catch); otherwise the score is data.uniqueWords
analyzeFluencySession(response) ==
  IF response.outcome # "json"
  THEN NoFluencyScore
  ELSE <<[score |-> response.uniqueWords,
          threshold |-> ANIMAL_FLUENCY_THRESHOLD,
          isConcern |-> isConcern(response.uniqueWords),
          metrics |-> [uniqueWords |-> response.uniqueWords,
                       repetitions |-> response.repetitions,
                       timeInSeconds |-> 15]]>>

\* the Score button of the dashboard: runFluencyAnalysis, with the analysis
\* it awaits (nothing else reads fluencyResult in between)
runFluencyAnalysis(response) ==
  /\ currentView = "DOCTOR"
  /\ apiKey
  /\ transcript # <<>>
  /\ fluencyResult' = analyzeFluencySession(response)
  /\ UNCHANGED <<apiKey, uiVars, appMode, appModeRef, testType, currentView,
                 timeLeft, deviceRefs, playbackVars, sessionPromiseRef,
                 transcriptVars, calls, closeRequested, pendingResume,
                 pendingDecodes, deviceVars, currentTime, nChunks,
                 sentBlocks>>

\* a timer fires (timers of equal delay fire in the order they were set) and
\* connect runs up to its await
delayedConnect(n) ==
  /\ calls[n].stage = "delayed"
  /\ \A m \in Calls : m < n => calls[m].stage # "delayed"
  /\ connectToAwait(n, calls[n].override)

\* a timer fires and connect returns at the credential check (App sets a
\* timer only after a session was connected, which takes the key)
delayedConnectMissingKey(n) ==
  /\ calls[n].stage = "delayed"
  /\ \A m \in Calls : m < n => calls[m].stage # "delayed"
  /\ ~apiKey
  /\ error' = MissingKeyError
  /\ calls' = [calls EXCEPT ![n].stage = "noKey"]
  /\ UNCHANGED <<apiKey, connectionState, isMuted, volumeLevel, modeVars,
                 deviceRefs, playbackVars, sessionPromiseRef, transcriptVars,
                 closeRequested, pendingResume, pendingDecodes, deviceVars,
                 currentTime, nChunks, sentBlocks>>

NextSession ==
  \/ connect
  \/ \E n \in Calls : getUserMediaResolved(n)
  \/ \E n \in Calls : getUserMediaRejected(n)
  \/ disconnect
  \/ \E n \in Calls, suspended \in BOOLEAN : onopen(n, suspended)
  \/ \E n \in Calls : onopenResumed(n)
  \/ \E n \in Calls : onclose(n)
  \/ \E n \in Calls : onerror(n)

\* the capture pipeline
NextCapture ==
  \/ toggleMute
  \/ \E p \in processors, v \in Volumes : onaudioprocess(p, v)

\* messages within a turn and without user transcription, the AI
\* transcription in units "a"
PlaybackMessage ==
  {m \in LiveServerMessage :
     /\ m.inputTranscription = NoText
     /\ m.outputTranscription \in {NoText, <<"a">>}
     /\ ~m.turnComplete}

\* messages without audio
TranscriptMessage == {m \in LiveServerMessage : m.audio = 0}

\* the transcription of turns
NextTranscript ==
  \E n \in Calls, m \in TranscriptMessage : onmessage(n, m)

\* the playback scheduler and the mode gate, with at most one unit of AI
\* transcription in the accumulator
NextPlayback ==
  \/ \E n \in Calls, m \in PlaybackMessage :
       /\ onmessage(n, m)
       /\ nChunks' <= MaxPlaybackChunks
       /\ Len(currentOutputTranscriptionRef') <= 1
  \/ \E d \in pendingDecodes, ok \in decodeAudioData : decodeSettled(d, ok)
  \/ \E s \in activeSourcesRef : ended(s)
  \/ tick /\ currentTime < MaxPlaybackTime
  \/ \E mode \in AppMode : setAppMode(mode)

\* sessions that open and are torn down by the caller, while the playback
\* context is running and the remote service neither fails nor closes
NextOpenClose ==
  \/ connect /\ calls[MaxPlaybackConnects].stage = "unused"
  \/ \E n \in Calls : getUserMediaResolved(n)
  \/ disconnect
  \/ \E n \in Calls : onopen(n, FALSE)

\* every operation and event of the hook.  The claims are checked under the
\* specifications below, each of which keeps the operations its claims are
\* about and leaves the other events out.
Next ==
  \/ NextSession
  \/ NextCapture
  \/ \E n \in Calls, m \in LiveServerMessage : onmessage(n, m)
  \/ \E d \in pendingDecodes, ok \in decodeAudioData : decodeSettled(d, ok)
  \/ \E s \in activeSourcesRef : ended(s)
  \/ tick
  \/ \E mode \in AppMode : setAppMode(mode)
  \/ \E n \in Calls, systemInstructionOverride \in Overrides :
       connectCall(n, systemInstructionOverride)
  \/ \E view \in AppView : setCurrentView(view)
  \/ \E type \in TestType \ {NoTestType} : handleSetupTest(type)
  \/ onStartTest
  \/ onStopTestEarly
  \/ countdown
  \/ handleCancelTest
  \/ \E n \in Calls : delayedConnect(n)
  \/ \E n \in Calls : delayedConnectMissingKey(n)
  \/ \E response \in GenerateContent : runFluencyAnalysis(response)

Spec == Init /\ [][Next]_vars

\* the session lifecycle alone (no capture block, no inbound message)
SpecSession == Init /\ [][NextSession]_vars

\* the session lifecycle with the capture pipeline
SpecCapture == Init /\ [][NextSession \/ NextCapture]_vars

\* inbound messages and playback over sessions that open and are torn down
SpecPlayback == Init /\ [][NextOpenClose \/ NextPlayback]_vars

\* one session that opens and is torn down by the caller
NextOneSession ==
  \/ connect /\ calls[1].stage = "unused"
  \/ \E n \in Calls : getUserMediaResolved(n)
  \/ disconnect
  \/ \E n \in Calls : onopen(n, FALSE)

\* messages that carry either an audio chunk or an interruption
ScheduleMessage ==
  {m \in LiveServerMessage :
     /\ m.inputTranscription = NoText
     /\ m.outputTranscription = NoText
     /\ ~m.turnComplete
     /\ (m.audio # 0) # m.interrupted}

\* the playback scheduler in conversation mode
NextSchedule ==
  \/ \E n \in Calls, m \in ScheduleMessage : onmessage(n, m)
  \/ \E d \in pendingDecodes, ok \in decodeAudioData : decodeSettled(d, ok)
  \/ \E s \in activeSourcesRef : ended(s)
  \/ tick

\* chunk scheduling in one session
SpecSchedule == Init /\ [][NextOneSession \/ NextSchedule]_vars

\* messages that carry an audio chunk, an interruption or both
DecodeMessage ==
  {m \in LiveServerMessage :
     /\ m.inputTranscription = NoText
     /\ m.outputTranscription \in {NoText, <<"a">>}
     /\ ~m.turnComplete
     /\ m.audio # 0 \/ m.interrupted}

\* chunks are decoded, with or without success, while the playback clock
\* stands still
NextDecode ==
  \/ \E n \in Calls, m \in DecodeMessage :
       /\ onmessage(n, m)
       /\ Len(currentOutputTranscriptionRef') <= 1
  \/ \E d \in pendingDecodes, ok \in decodeAudioData : decodeSettled(d, ok)

\* chunk decoding in one session
SpecDecode == Init /\ [][NextOneSession \/ NextDecode]_vars

\* turn transcription over sessions that open and are torn down
SpecTranscript == Init /\ [][NextOpenClose \/ NextTranscript]_vars

\* messages of the user's side of a turn, with chunks and interruptions
InterruptMessage ==
  {m \in LiveServerMessage : m.outputTranscription = NoText}

\* the user's speech is transcribed while it interrupts the playback
NextInterrupt ==
  \/ \E n \in Calls, m \in InterruptMessage :
       /\ onmessage(n, m)
       /\ nChunks' <= MaxPlaybackChunks
  \/ \E d \in pendingDecodes, ok \in decodeAudioData : decodeSettled(d, ok)

\* interruptions in one session
SpecInterrupt == Init /\ [][NextOneSession \/ NextInterrupt]_vars

\* playback in one session, under every mode
SpecMode == Init /\ [][NextOneSession \/ NextPlayback]_vars

\* capture and transcription in one session, under every mode
NextModeless ==
  \/ NextOneSession
  \/ NextCapture
  \/ NextTranscript
  \/ \E mode \in AppMode : setAppMode(mode)

\* what the operating mode does not gate
SpecModeless == Init /\ [][NextModeless]_vars

\* sessions that open one after the other, are replaced, are closed by
\* either side, and change mode, while transcriptions arrive
NextLog ==
  \/ /\ connect
     /\ \A n \in Calls : calls[n].stage \notin {"awaitMic", "negotiating"}
  \/ \E n \in Calls : getUserMediaResolved(n)
  \/ disconnect
  \/ \E n \in Calls : onopen(n, FALSE)
  \/ \E n \in Calls : onclose(n)
  \/ \E mode \in AppMode : setAppMode(mode)
  \/ NextTranscript

\* the transcript log over the life of the application
SpecLog == Init /\ [][NextLog]_vars

\* the user connects once, then the test handlers switch sessions
NextApp ==
  \/ connect /\ calls[1].stage = "unused" /\ currentView = "PATIENT"
  \/ \E view \in AppView : setCurrentView(view)
  \/ \E type \in TestType \ {NoTestType} : handleSetupTest(type)
  \/ onStartTest
  \/ onStopTestEarly
  \/ handleCancelTest
  \/ \E n \in Calls : delayedConnect(n)
  \/ \E n \in Calls : getUserMediaResolved(n)
  \/ \E n \in Calls : onopen(n, FALSE)

\* role switching by reconnecting
SpecApp == Init /\ [][NextApp]_vars

\* one test from setup to its end: a test is set up only while a call of
\* connect is left for the handler that ends it
NextCountdown ==
  \/ connect /\ calls[1].stage = "unused" /\ currentView = "PATIENT"
  \/ \E view \in AppView : setCurrentView(view)
  \/ \E type \in TestType \ {NoTestType} :
       /\ handleSetupTest(type)
       /\ calls[MaxConnects + MaxDelayedConnects - 1].stage = "unused"
  \/ onStartTest
  \/ onStopTestEarly
  \/ handleCancelTest
  \/ countdown
  \/ \E n \in Calls : delayedConnect(n)
  \/ \E n \in Calls : getUserMediaResolved(n)
  \/ \E n \in Calls : onopen(n, FALSE)

\* the countdown of a test
SpecCountdown == Init /\ [][NextCountdown]_vars

\* setInterval fires its callback for as long as the interval exists
SpecCountdownFair == SpecCountdown /\ WF_vars(countdown)

\* a completed turn of the user
FluencyMessage ==
  {m \in TranscriptMessage :
     /\ m.inputTranscription = <<"a">>
     /\ m.outputTranscription = NoText
     /\ m.turnComplete
     /\ ~m.interrupted}

\* the user speaks in one session and the doctor scores the transcript
NextFluency ==
  \/ NextOneSession
  \/ \E view \in AppView : setCurrentView(view)
  \/ \E n \in Calls, m \in FluencyMessage : onmessage(n, m)
  \/ \E response \in GenerateContent : runFluencyAnalysis(response)

\* fluency scoring
SpecFluency == Init /\ [][NextFluency]_vars

\* connect with every kind of argument, in a plain session lifecycle
NextInstruction ==
  \/ connectMissingKey
  \/ \E n \in Calls, systemInstructionOverride \in Overrides :
       connectCall(n, systemInstructionOverride)
  \/ \E n \in Calls : getUserMediaResolved(n)
  \/ disconnect
  \/ \E n \in Calls : onopen(n, FALSE)
  \/ \E n \in Calls : onclose(n)

\* sessions opened with and without an instruction override
SpecInstruction == Init /\ [][NextInstruction]_vars

TypeOK ==
  /\ apiKey \in BOOLEAN
  /\ connectionState \in ConnectionState
  /\ error \in {NoError, MissingKeyError, TransportError} \cup MicErrors
  /\ isMuted \in BOOLEAN
  /\ volumeLevel \in Volumes
  /\ appMode \in AppMode /\ appModeRef \in AppMode
  /\ testType \in TestType
  /\ currentView \in AppView
  /\ fluencyResult = NoFluencyScore \/ fluencyResult[1].score \in 0..MaxWords
  /\ timeLeft \in 0..duration(testType)
  /\ \A n \in Calls : calls[n].stage \in Stages
  /\ \A n \in Calls : calls[n].override \in Overrides
  /\ \A n \in Calls :
       calls[n].systemInstruction \in
         {NoInstruction, DEFAULT_SYSTEM_INSTRUCTION, ProctorInstruction}
  /\ sessionPromiseRef \in {0} \cup Calls
  /\ streamRef \in {0} \cup Calls
  /\ Len(currentOutputTranscriptionRef) <= MaxLen
  /\ Len(currentInputTranscriptionRef) <= MaxLen
  /\ Len(transcript) <= MaxLen
  /\ \A i \in 1..Len(transcript) : transcript[i].role \in {"user", "model"}
  /\ nChunks \in 0..MaxChunks
  /\ lastEnd \in {NoChunk} \cup Nat
  /\ nextStartTimeRef \in Nat
  /\ sentBlocks \in 0..MaxBlocks
  /\ currentTime \in 0..MaxTime

\* ================================================================ claims

OpenSessions == {n \in Calls : calls[n].stage = "open"}

\* C1: in no reachable state are two microphone captures live, or two
\* remote sessions open, at the same time (a connect over an existing
\* session tears it down before the new one is established).
C1_SingleSession ==
  /\ Cardinality(liveStreams) <= 1
  /\ Cardinality(OpenSessions) <= 1

\* every call of connect made so far has acquired its microphone and its
\* session has finished opening, and none has been closed since
AllCallsSettledOpen ==
  /\ \A n \in Calls : calls[n].stage \in {"unused", "open"}
  /\ OpenSessions # {}
  /\ pendingResume = {}

\* C2: once the calls of connect made in quick succession have all settled,
\* exactly one capture device and exactly one remote session exist.
C2_QuickConnectsLeaveOne ==
  AllCallsSettledOpen =>
    /\ Cardinality(liveStreams) = 1
    /\ Cardinality(OpenSessions) = 1

\* C3: in every operating mode, once a message carrying interrupted (and no
\* audio to decode first) is processed, the active playback set is empty,
\* the cursor is reset and the model-side accumulator is empty.
C3_InterruptedResetsInEveryMode ==
  [][\A n \in Calls, m \in LiveServerMessage :
       (m.interrupted /\ m.audio = 0 /\ onmessage(n, m)) =>
         /\ activeSourcesRef' = {}
         /\ nextStartTimeRef' = 0
         /\ currentOutputTranscriptionRef' = NoText]_vars

\* C4: a chunk that arrived before an interruption was processed is never
\* in the active playback set afterwards.
C4_NoChunkScheduledAfterInterruption ==
  \A s \in activeSourcesRef : ~s.late

\* the messages that carry an audio chunk
AudioMessage == {m \in LiveServerMessage : m.audio # 0}

\* C5: a message carrying an audio chunk that is evaluated while the mode
\* is test-active starts no decode, schedules nothing, and leaves the
\* active playback set and the cursor unchanged: a step taken in
\* test-active that changes one of them is not the handling of such a
\* message.
C5_TestActiveChunkIgnored ==
  [][appModeRef = "TEST_ACTIVE" =>
       \/ UNCHANGED <<pendingDecodes, nChunks, activeSourcesRef,
                      nextStartTimeRef>>
       \/ \A n \in OpenSessions, m \in AudioMessage : ~onmessage(n, m)]_vars

\* the gate at work: test-active, a session open on a live playback
\* context, a chunk scheduled before the mode change still in the active
\* set, and AI transcript text in the accumulator
C5_Witness ==
  /\ appModeRef = "TEST_ACTIVE"
  /\ OpenSessions # {}
  /\ outputAudioContextRef # 0
  /\ activeSourcesRef # {}
  /\ currentOutputTranscriptionRef # NoText

\* C6: while the mute flag is set, no capture block is handed to the
\* transport, also when the flag was set after the session was opened.
C6_MutedBlockNeverSent ==
  [][isMuted => sentBlocks' = sentBlocks]_vars

\* call n is suspended on getUserMedia and cleanup has run since it
\* created its audio contexts
TornDownWhileAwaitingMic(n) ==
  calls[n].stage = "awaitMic" /\ inputAudioContextRef = 0

\* C7: a connect that was torn down by disconnect while it waited for the
\* microphone does nothing when the acquisition completes: it keeps no
\* stream, opens no session and leaves connectionState alone.
C7_TornDownConnectNoOps ==
  [][\A n \in Calls :
       (TornDownWhileAwaitingMic(n) /\ calls'[n].stage # "awaitMic") =>
         /\ calls'[n].stage # "negotiating"
         /\ liveStreams' = liveStreams
         /\ sessionPromiseRef' = sessionPromiseRef]_vars

\* C8: no chunk whose decode was pending at a teardown is scheduled
\* afterwards: the active playback set holds no source of a playback
\* context that cleanup has closed.
C8_NoChunkScheduledAfterTeardown ==
  \A s \in activeSourcesRef : s.context \in openOutputContexts

\* C9: connect without the credential moves connectionState to 'error'
\* and sets the error message, acquiring nothing.
C9_MissingKeyIsErrorState ==
  error = MissingKeyError =>
    /\ connectionState = "error"
    /\ liveStreams = {}
    /\ openInputContexts = {} /\ openOutputContexts = {}
    /\ \A n \in Calls : calls[n].stage = "unused"

\* C10: when the microphone acquisition of a connect fails, connectionState
\* becomes 'error' with an error message set, that step opens no session
\* and keeps no stream, the failed call never proceeds, and
\* connectionState becomes 'connecting' again only by a new call of connect.
C10_MicFailureEndsAttempt ==
  [][/\ \A n \in Calls :
          /\ (calls[n].stage = "awaitMic" /\ calls'[n].stage = "micFailed") =>
               /\ connectionState' = "error"
               /\ error' # NoError
               /\ sessionPromiseRef' = sessionPromiseRef
               /\ liveStreams' = liveStreams
               /\ \A m \in Calls : calls'[m].stage = "negotiating"
                                     => calls[m].stage = "negotiating"
          /\ calls[n].stage = "micFailed" => calls'[n].stage = "micFailed"
     /\ (connectionState # "connecting" /\ connectionState' = "connecting") =>
          \E m \in Calls : calls[m].stage = "unused"
                           /\ calls'[m].stage = "awaitMic"]_vars

\* a connect has failed on the microphone and nothing has happened since
C10_Witness ==
  /\ \E n \in Calls : calls[n].stage = "micFailed"
  /\ connectionState = "error"
  /\ error \in MicErrors
  /\ sessionPromiseRef = 0
  /\ liveStreams = {}

\* C11: a transport error sets connectionState to 'error' and a non-empty
\* error string; while that error stands (connect has not been invoked
\* since), connectionState does not become 'connecting' and no new remote
\* session is opened.
C11_TransportErrorNoRetry ==
  [][/\ \A n \in Calls :
          (calls[n].stage \in {"negotiating", "open"} /\ onerror(n)) =>
            connectionState' = "error" /\ error' = TransportError
     /\ error = TransportError =>
          \/ \E n \in Calls : connectStart(n)
          \/ /\ connectionState' = "connecting"
                  => connectionState = "connecting"
             /\ \A m \in Calls : calls'[m].stage = "negotiating"
                                   => calls[m].stage = "negotiating"]_vars

\* C12: in every step, connectionState enters 'connected' only from
\* 'connecting', enters 'error' only from 'connecting' or 'connected', and
\* enters 'connecting' only by a call of connect.
C12_StateMachineTransitions ==
  [][/\ (connectionState' = "connected" /\ connectionState # "connected")
          => connectionState = "connecting"
     /\ (connectionState' = "error" /\ connectionState # "error")
          => connectionState \in {"connecting", "connected"}
     /\ (connectionState' = "connecting" /\ connectionState # "connecting")
          => \E n \in Calls : connectStart(n)]_vars

\* what a second cleanup() would change: nothing
CleanupFixedPoint ==
  /\ activeSourcesRef = {}
  /\ streamRef = 0 /\ cleanupLiveStreams = liveStreams
  /\ scriptProcessorRef = 0 /\ cleanupProcessors = processors
  /\ inputAudioContextRef = 0 /\ cleanupInputContexts = openInputContexts
  /\ outputAudioContextRef = 0 /\ cleanupOutputContexts = openOutputContexts
  /\ sessionPromiseRef = 0
  /\ cleanupCalls = calls /\ cleanupCloseRequested = closeRequested
  /\ connectionState = "disconnected"
  /\ volumeLevel = 0

\* C13: disconnect() from any state leaves connectionState 'disconnected',
\* no microphone stream, no capture or playback audio context, no session
\* handle, an empty active playback set and volume level 0, and a second
\* call changes nothing further.
C13_DisconnectReleasesEverything ==
  [][disconnect =>
       /\ connectionState' = "disconnected"
       /\ streamRef' = 0 /\ liveStreams' = {}
       /\ inputAudioContextRef' = 0 /\ openInputContexts' = {}
       /\ outputAudioContextRef' = 0 /\ openOutputContexts' = {}
       /\ sessionPromiseRef' = 0
       /\ activeSourcesRef' = {}
       /\ volumeLevel' = 0
       /\ CleanupFixedPoint']_vars

\* the messages that carry turnComplete
TurnCompleteMessage == {m \in LiveServerMessage : m.turnComplete}

\* C14: immediately after a message with turnComplete is processed, both
\* turn accumulators are empty, whether or not a ChatMessage was emitted:
\* a step that leaves text in one of them is not the processing of such a
\* message.
C14_TurnCompleteClearsAccumulators ==
  [][\/ /\ currentInputTranscriptionRef' = NoText
        /\ currentOutputTranscriptionRef' = NoText
     \/ \A n \in OpenSessions, m \in TurnCompleteMessage :
          ~onmessage(n, m)]_vars

\* a turn has been completed and emitted, and nothing has arrived since
C14_Witness ==
  /\ OpenSessions # {}
  /\ transcript # <<>>
  /\ currentInputTranscriptionRef = NoText
  /\ currentOutputTranscriptionRef = NoText

\* C15: at turnComplete, each role gets exactly one ChatMessage if its
\* accumulator (with the fragment of this message) has a non-blank
\* character and none otherwise, appended to the log, and its text is the
\* accumulator verbatim; a message without turnComplete emits nothing and
\* appends its fragments verbatim to the accumulators, which only an
\* interruption clears.
C15_OneMessagePerNonBlankRole ==
  [][\A n \in OpenSessions, m \in LiveServerMessage :
       onmessage(n, m) =>
         LET input == currentInputTranscriptionRef \o m.inputTranscription
             output == currentOutputTranscriptionRef \o m.outputTranscription
             blank(text) == \A i \in 1..Len(text) : text[i] = " "
             new == SubSeq(transcript', Len(transcript) + 1, Len(transcript'))
             of(role) == SelectSeq(new, LAMBDA c : c.role = role)
             expected(role, text) ==
               IF blank(text) THEN <<>>
               ELSE <<[role |-> role, text |-> text]>>
         IN IF m.turnComplete
            THEN /\ SubSeq(transcript', 1, Len(transcript)) = transcript
                 /\ of("user") = expected("user", input)
                 /\ of("model") = expected("model", output)
            ELSE /\ transcript' = transcript
                 /\ currentInputTranscriptionRef' = input
                 /\ currentOutputTranscriptionRef' = output
                      \/ /\ m.interrupted
                         /\ currentOutputTranscriptionRef' = NoText]_vars

\* a ChatMessage made of two fragments was emitted, its trailing blank kept
C15_Witness ==
  \E i \in 1..Len(transcript) : transcript[i].text = <<"a", " ">>

\* C16 as stated: if both accumulators are non-empty at turnComplete, a
\* user ChatMessage and then a model ChatMessage are appended to the log.
C16_UserBeforeModelWhenNonEmpty ==
  [][\A n \in OpenSessions, m \in TurnCompleteMessage :
       LET input == currentInputTranscriptionRef \o m.inputTranscription
           output == currentOutputTranscriptionRef \o m.outputTranscription
           last == Len(transcript)
       IN (onmessage(n, m) /\ input # NoText /\ output # NoText) =>
            /\ Len(transcript') = last + 2
            /\ transcript'[last + 1].role = "user"
            /\ transcript'[last + 2].role = "model"]_vars

\* C16, amended: if both accumulators hold a non-blank character at
\* turnComplete, a user ChatMessage and then a model ChatMessage are
\* appended to the log.
C16_UserBeforeModelWhenNonBlank ==
  [][\A n \in OpenSessions, m \in TurnCompleteMessage :
       LET input == currentInputTranscriptionRef \o m.inputTranscription
           output == currentOutputTranscriptionRef \o m.outputTranscription
           solid(text) == \E i \in 1..Len(text) : text[i] # " "
           last == Len(transcript)
       IN (onmessage(n, m) /\ solid(input) /\ solid(output)) =>
            /\ Len(transcript') = last + 2
            /\ transcript'[last + 1] = [role |-> "user", text |-> input]
            /\ transcript'[last + 2] = [role |-> "model", text |-> output]]_vars

\* one turn gave a user message and a model message
C16_Witness ==
  /\ Len(transcript) = 2
  /\ transcript[1].role = "user"
  /\ transcript[2].role = "model"

C18_ScheduledInArrivalOrder ==
  \A s1, s2 \in activeSourcesRef :
    (/\ s1.id < s2.id
     /\ s1.context = s2.context
     /\ ~s1.late /\ ~s2.late) => s1.start < s2.start

\* C19: a chunk is started at a time that is not earlier than the clock of
\* the playback context at that moment, and the cursor advances by the
\* duration of the chunk in the same step.
C19_StartNotBeforeClock ==
  [][\A s \in activeSourcesRef' \ activeSourcesRef :
       /\ s.context = outputAudioContextRef => s.start >= currentTime
       /\ nextStartTimeRef' = nextStartTimeRef + s.duration]_vars

\* C20: the cursor decreases in a step only if that step is the start of a
\* new session by connect or the processing of an interruption.
C20_CursorDecreasesOnlyAtReset ==
  [][nextStartTimeRef' < nextStartTimeRef =>
       \/ \E n \in Calls : connectStart(n)
       \/ \E n \in OpenSessions, m \in LiveServerMessage :
            m.interrupted /\ onmessage(n, m)
       \/ \E d \in pendingDecodes, ok \in decodeAudioData :
            d.interrupted /\ decodeSettled(d, ok)]_vars

\* the cursor has advanced over several chunks and another is being decoded
C20_Witness ==
  /\ nextStartTimeRef >= 3
  /\ activeSourcesRef # {}
  /\ pendingDecodes # {}

\* C21: a decode failure of a chunk changes neither connectionState nor the
\* error string, drops that chunk alone (the other pending chunks stay
\* pending), and leaves the active playback set, the cursor and the
\* accumulators as they were, unless its message also carried interrupted,
\* which is then processed.
C21_DecodeFailureDropsOneChunk ==
  [][\A d \in pendingDecodes :
       decodeSettled(d, FALSE) =>
         /\ UNCHANGED <<connectionState, error>>
         /\ {x.id : x \in pendingDecodes'} =
              {x.id : x \in pendingDecodes} \ {d.id}
         /\ IF d.interrupted
            THEN /\ activeSourcesRef' = {}
                 /\ nextStartTimeRef' = 0
                 /\ currentOutputTranscriptionRef' = NoText
            ELSE UNCHANGED <<activeSourcesRef, nextStartTimeRef,
                             transcriptVars>>]_vars

\* the second of three chunks was dropped: the first is still in the
\* active set (the clock has not moved, nothing was interrupted) and the
\* third was scheduled right behind it
C21_Witness ==
  /\ outputAudioContextRef # 0
  /\ currentTime = 0
  /\ \A x \in activeSourcesRef \cup pendingDecodes : x.id # 2
  /\ \E s1, s3 \in activeSourcesRef :
       /\ s1.id = 1 /\ s3.id = 3
       /\ s1.context = outputAudioContextRef
       /\ s3.start = s1.start + s1.duration


\* the connect calls that went on to configure a remote session
Configured ==
  {n \in Calls : calls[n].stage \in {"negotiating", "open", "closing", "closed"}}

\* C22 as stated: a session opened by connect(override) uses the override
\* whenever one is given, and the default companion instruction otherwise
C22_GivenOverrideIsUsed ==
  \A n \in Configured :
    calls[n].systemInstruction =
      IF calls[n].override # NoOverride
      THEN calls[n].override
      ELSE DEFAULT_SYSTEM_INSTRUCTION

\* C22 amended: a session uses the override of its own connect call whenever
\* that override is a non-empty string, and the default companion instruction
\* when the call had no override or an empty one; an earlier call's override
\* plays no part
C22_NonEmptyOverrideIsUsed ==
  \A n \in Configured :
    calls[n].systemInstruction =
      IF calls[n].override \notin {NoOverride, EmptyInstruction}
      THEN calls[n].override
      ELSE DEFAULT_SYSTEM_INSTRUCTION

\* a proctor session was opened, and a later connect() without an argument
\* opened a session with the default instruction
C22_Witness ==
  \E n, m \in Configured :
    /\ n < m
    /\ calls[n].override = ProctorInstruction
    /\ calls[n].systemInstruction = ProctorInstruction
    /\ calls[m].override = NoOverride
    /\ calls[m].systemInstruction = DEFAULT_SYSTEM_INSTRUCTION


\* a test was set up and then completed or cancelled, and every connect call,
\* delayed or not, has run to its end
TestEndedAndSettled ==
  /\ appMode = "CONVERSATION"
  /\ \E n \in Calls : calls[n].override = ProctorInstruction
  /\ \A n \in Calls :
       calls[n].stage \in {"unused", "open", "closing", "closed"}
  /\ pendingResume = {}

\* C23: after a test is completed or cancelled, once all delayed connects
\* have settled, exactly one remote session is open, it uses the default
\* companion instruction, and no proctor session remains open.
C23_OneCompanionSessionAfterTest ==
  TestEndedAndSettled =>
    /\ Cardinality(OpenSessions) = 1
    /\ \A n \in OpenSessions :
         calls[n].systemInstruction = DEFAULT_SYSTEM_INSTRUCTION


\* the ChatMessages the handling of message m emits
Emitted(m) ==
  IF m.turnComplete
  THEN completedTurns(currentInputTranscriptionRef \o m.inputTranscription,
                      currentOutputTranscriptionRef \o m.outputTranscription)
  ELSE <<>>

\* C24: the transcript log is append-only across connects, disconnects,
\* reconnects and mode changes: a step that emits ChatMessages puts them at
\* the end of the log, and every other step leaves the log as it is.
C24_TranscriptAppendOnly ==
  [][\/ transcript' = transcript
     \/ \E n \in Calls, m \in TranscriptMessage :
          /\ onmessage(n, m)
          /\ transcript' = transcript \o Emitted(m)]_vars

\* a second session appended a message after the first session's message,
\* in another mode
C24_Witness ==
  /\ Len(transcript) = 2
  /\ \E n \in Calls : n > 1 /\ calls[n].stage = "open"
  /\ calls[1].stage \in {"closing", "closed"}
  /\ appMode # "CONVERSATION"


\* C25: a change of operating mode by itself leaves the active playback
\* set, the cursor, the turn accumulators and connectionState unchanged, and
\* so the chunks that arrived before it and are still being decoded.
C25_ModeChangeLeavesPlaybackAlone ==
  [][(\E mode \in AppMode : setAppMode(mode)) =>
       UNCHANGED <<activeSourcesRef, nextStartTimeRef,
                   currentInputTranscriptionRef,
                   currentOutputTranscriptionRef, connectionState,
                   pendingDecodes>>]_vars

\* test-active was entered while a chunk that had arrived earlier was still
\* being decoded, or was playing with the cursor past the clock
C25_Witness ==
  /\ appMode = "TEST_ACTIVE"
  /\ connectionState = "connected"
  /\ \/ pendingDecodes # {}
     \/ activeSourcesRef # {} /\ nextStartTimeRef > currentTime


\* C26: capture is not gated by the operating mode: in test-active, every
\* capture processor of the connected session hands its blocks to the
\* transport whenever the mute flag is clear (transcript fragments and
\* turnComplete events are handled before the mode is looked at).
C26_TestActiveCaptureTransmits ==
  appModeRef = "TEST_ACTIVE" =>
    \A p \in processors :
      (/\ ~isMuted
       /\ connectionState = "connected"
       /\ p.session = sessionPromiseRef
       /\ calls[p.session].stage = "open"
       /\ p.context \in openInputContexts)
      => ~onaudioprocessMuted(p)


\* C27: every unit of the active playback set is a chunk that was scheduled
\* and has neither finished nor been force-stopped: a unit enters the set
\* only when its decoded chunk is scheduled, and leaves it only when it
\* finishes (that unit alone) or when a force-stop empties the set; when a
\* unit finishes, nothing else (cursor, accumulators, connectionState)
\* changes.
C27_ActiveSetHoldsScheduledUnfinished ==
  [][/\ \A s \in activeSourcesRef' \ activeSourcesRef :
          \E d \in pendingDecodes :
            /\ d.id = s.id
            /\ d \notin pendingDecodes'
            /\ \A x \in activeSourcesRef : x.id # d.id
     /\ activeSourcesRef \ activeSourcesRef' # {} =>
          \/ activeSourcesRef' = {}
          \/ \E s \in activeSourcesRef :
               /\ activeSourcesRef' = activeSourcesRef \ {s}
               /\ s.context = outputAudioContextRef => currentTime >= s.end
     /\ \A s \in activeSourcesRef :
          ended(s) =>
            /\ activeSourcesRef' = activeSourcesRef \ {s}
            /\ UNCHANGED <<nextStartTimeRef, currentInputTranscriptionRef,
                           currentOutputTranscriptionRef,
                           connectionState>>]_vars

\* the first chunk played to its end and left the set, the second, queued
\* behind it, is still in the set, and the cursor stands where it stood
C27_Witness ==
  /\ pendingDecodes = {}
  /\ \A x \in activeSourcesRef : x.id # 1
  /\ \E s \in activeSourcesRef :
       /\ s.id = 2
       /\ s.context = outputAudioContextRef
       /\ s.start > 0
       /\ nextStartTimeRef = s.start + s.duration
       /\ currentTime < s.end


\* C28: whenever connectionState is 'disconnected', after disconnect() and
\* after a close by the remote side alike, no microphone stream is held and
\* no capture processor is left that hands blocks to an open session.
C28_DisconnectedHoldsNoMicrophone ==
  connectionState = "disconnected" =>
    /\ streamRef = 0
    /\ liveStreams = {}
    /\ \A p \in processors :
         p.context \in openInputContexts => calls[p.session].stage # "open"


\* session n has been replaced: a later call of connect was made and the
\* hook no longer refers to n
Replaced(n) ==
  /\ n # sessionPromiseRef
  /\ \E m \in Calls : m > n /\ calls[m].stage # "unused"

\* C29: connectionState reflects the current session only: an open, close
\* or error callback of a replaced session never changes connectionState,
\* and while the current session is open connectionState is 'connected'.
C29_StateFollowsCurrentSession ==
  [][/\ \A n \in Calls :
          (/\ Replaced(n)
           /\ \/ \E suspended \in BOOLEAN : onopen(n, suspended)
              \/ onclose(n)
              \/ onerror(n))
          => UNCHANGED connectionState
     /\ (sessionPromiseRef' # 0 /\ calls'[sessionPromiseRef'].stage = "open")
          => connectionState' = "connected"]_vars


\* C30: the turn accumulators do not leak across sessions: after
\* disconnect(), and after a connect that replaces a session, both
\* accumulators are empty.
C30_AccumulatorsEmptyAfterTeardown ==
  [][(\/ disconnect
      \/ sessionPromiseRef # 0 /\ \E n \in Calls : connectStart(n))
     => /\ currentInputTranscriptionRef' = NoText
        /\ currentOutputTranscriptionRef' = NoText]_vars


\* C31: in every reachable state at most one capture audio context and at
\* most one playback audio context are open, also when a connect that
\* failed on microphone acquisition is followed by another connect.
C31_OneContextOfEachKind ==
  /\ Cardinality(openInputContexts) <= 1
  /\ Cardinality(openOutputContexts) <= 1


\* C32: in every reachable state the user-facing error string is non-null
\* if and only if connectionState is 'error'.
C32_ErrorIffErrorState ==
  error # NoError <=> connectionState = "error"


\* C33: processing an interruption leaves the user-side accumulator as any
\* other message would: the fragment of the message is appended, only a
\* turnComplete in the same message clears it, and the user ChatMessage
\* emitted at a turnComplete holds every fragment received since the
\* previous one, whether an interruption came in between or not.
C33_InterruptionKeepsUserAccumulator ==
  [][/\ \A n \in Calls, m \in InterruptMessage :
          (m.interrupted /\ onmessage(n, m)) =>
            /\ currentInputTranscriptionRef' =
                 IF m.turnComplete
                 THEN NoText
                 ELSE currentInputTranscriptionRef \o m.inputTranscription
            /\ transcript' = transcript \o Emitted(m)
     /\ \A d \in pendingDecodes, ok \in decodeAudioData :
          (d.interrupted /\ decodeSettled(d, ok)) =>
            UNCHANGED <<currentInputTranscriptionRef, transcript>>]_vars

\* an interruption was processed while a chunk was being decoded, and the
\* user message emitted in this session holds both fragments of the turn
C33_Witness ==
  /\ \E d \in pendingDecodes : d.late
  /\ Len(transcript) = 1
  /\ transcript[1].role = "user"
  /\ Len(transcript[1].text) = 2


\* C34: through the application's handlers the mode follows a fixed cycle:
\* TEST_SETUP is entered only from CONVERSATION and only while
\* connectionState is 'connected', TEST_ACTIVE is entered only from
\* TEST_SETUP, and testType is non-null exactly when the mode is TEST_SETUP
\* or TEST_ACTIVE.
C34_ModeCycle ==
  [][/\ (appMode' = "TEST_SETUP" /\ appMode # "TEST_SETUP") =>
          appMode = "CONVERSATION" /\ connectionState = "connected"
     /\ (appMode' = "TEST_ACTIVE" /\ appMode # "TEST_ACTIVE") =>
          appMode = "TEST_SETUP"
     /\ testType' # NoTestType <=>
          appMode' \in {"TEST_SETUP", "TEST_ACTIVE"}]_vars

\* a semantic test is running on a session opened with the proctor
\* instruction
C34_Witness ==
  /\ appMode = "TEST_ACTIVE"
  /\ testType = "SEMANTIC"
  /\ \E n \in OpenSessions : calls[n].systemInstruction = ProctorInstruction


\* C35: while the mode is TEST_ACTIVE the countdown starts at the test's
\* duration, decreases by one per tick and never goes below 0, and at its
\* end onTestComplete is invoked, so that a started test eventually returns
\* the mode to CONVERSATION.
C35_StartedTestEnds ==
  appMode = "TEST_ACTIVE" ~> appMode = "CONVERSATION"


\* C36: the fluency score returned by analyzeFluencySession equals N - R,
\* where N is the number of unique correct words and R the number of
\* repetitions reported by the analysis.
C36_ScoreIsUniqueMinusRepetitions ==
  fluencyResult # NoFluencyScore =>
    fluencyResult[1].score =
      fluencyResult[1].metrics.uniqueWords
        - fluencyResult[1].metrics.repetitions

\* C37: analyzeFluencySession sets isConcern exactly when the returned
\* score is below the threshold of 3, reports threshold 3, and returns null
\* when the analysis response is empty or any step fails.
C37_ConcernBelowThreshold ==
  [][\A response \in GenerateContent :
       runFluencyAnalysis(response) =>
         IF response.outcome = "json"
         THEN /\ fluencyResult' # NoFluencyScore
              /\ fluencyResult'[1].threshold = 3
              /\ fluencyResult'[1].isConcern <=> fluencyResult'[1].score < 3
         ELSE fluencyResult' = NoFluencyScore]_vars

\* an analysis scored exactly the threshold and raised no concern
C37_Witness ==
  /\ fluencyResult # NoFluencyScore
  /\ fluencyResult[1].score = 3
  /\ ~fluencyResult[1].isConcern

====
